---- MODULE Spec2Model ----
(***************************************************************************)
(* Model of ExcelProcessorApp (src/.xlsxApplication.py): the table built   *)
(* from the four sheets, the status / order derivation, the need edit      *)
(* handler and the FSNKP pass.                                             *)
(*                                                                         *)
(* A text is a sequence of one-character strings, so that str(), float(),  *)
(* replace(), split() and the "in" test are computed on characters.        *)
(* Numbers are integers: the model's inputs are texts and cells whose      *)
(* value is a finite number without fractional part (no nan / inf).        *)
(*                                                                         *)
(* Operators are applied to values: where the argument of a call is itself *)
(* the result of a computation, Once binds that result first.              *)
(***************************************************************************)
EXTENDS Integers, Sequences, FiniteSets, TLC

(***************************************************************************)
(* Python text primitives                                                  *)
(***************************************************************************)
Digits == <<"0", "1", "2", "3", "4", "5", "6", "7", "8", "9">>

Letters == {"A", "B", "F", "H", "K", "M", "N", "P", "S", "X", "Y",
            "a", "e", "l", "m", "n", "x", "z"}

IsDigit(c) == \E i \in 1..10 : Digits[i] = c

DigitVal(c) == (CHOOSE i \in 1..10 : Digits[i] = c) - 1

\* char.isalpha()
IsAlpha(c) == c \in Letters

Abs(x) == IF x < 0 THEN -x ELSE x

\* F applied to the value of e, with e evaluated once
Once(F(_), e) == CHOOSE y \in {F(v) : v \in {e}} : TRUE

\* sub in s
Contains(s, sub) ==
    \E i \in 0..(Len(s) - Len(sub)) : SubSeq(s, i + 1, i + Len(sub)) = sub

\* s.replace(c, t) for a one-character c
Replace(s, c, t) ==
    LET r[i \in 1..(Len(s) + 1)] ==
            IF i > Len(s) THEN <<>>
            ELSE (IF s[i] = c THEN t ELSE <<s[i]>>) \o r[i + 1]
    IN r[1]

\* s.split(sep)[0]
SplitFirst(s, sep) ==
    IF Contains(s, sep)
    THEN LET i == CHOOSE k \in 0..(Len(s) - Len(sep)) :
                      /\ SubSeq(s, k + 1, k + Len(sep)) = sep
                      /\ \A j \in 0..(k - 1) : SubSeq(s, j + 1, j + Len(sep)) # sep
         IN SubSeq(s, 1, i)
    ELSE s

\* s.count(c)
Count(s, c) == Cardinality({i \in 1..Len(s) : s[i] = c})

\* str(n) of a non-negative int
NatStr(n) ==
    LET r[k \in 0..n] ==
            IF k < 10 THEN <<Digits[k + 1]>>
            ELSE r[k \div 10] \o <<Digits[(k % 10) + 1]>>
    IN r[n]

\* str(n) of an int
IntStr(n) == (IF n < 0 THEN <<"-">> ELSE <<>>) \o NatStr(Abs(n))

\* str(x) of a float with no fractional part: "12.0", "-3.0"
FloatStr(x) == IntStr(x) \o <<".", "0">>

\* float(s): [ok |-> FALSE] stands for ValueError.  Accepted: an optional
\* sign, digits, an optional "." and digits; at least one digit.  The value
\* is that of the digits before the "."; texts with other digits than 0
\* after it are not among the model's inputs.
PyFloat(s) ==
    LET off   == IF Len(s) > 0 /\ s[1] \in {"-", "+"} THEN 1 ELSE 0
        dots  == {i \in (off + 1)..Len(s) : s[i] = "."}
        dot   == IF dots = {} THEN Len(s) + 1 ELSE CHOOSE i \in dots : TRUE
        ok    == /\ Cardinality(dots) <= 1
                 /\ \A i \in (off + 1)..Len(s) : s[i] = "." \/ IsDigit(s[i])
                 /\ \E i \in (off + 1)..Len(s) : IsDigit(s[i])
        mag[k \in off..Len(s)] ==
            IF k = off THEN 0 ELSE 10 * mag[k - 1] + DigitVal(s[k])
    IN IF ok
       THEN [ok |-> TRUE,
             val |-> IF off = 1 /\ s[1] = "-" THEN -mag[dot - 1] ELSE mag[dot - 1]]
       ELSE [ok |-> FALSE, val |-> 0]

(***************************************************************************)
(* Cells of the sheets (pandas values) and their conversions               *)
(***************************************************************************)
StrCell(s) == [t |-> "str", s |-> s, n |-> 0]

NumCell(n) == [t |-> "num", s |-> <<>>, n |-> n]

DateCell(s) == [t |-> "date", s |-> s, n |-> 0]

NaN == [t |-> "nan", s |-> <<>>, n |-> 0]

\* str(value): a text cell as it is, an int as its digits, an empty cell as
\* "nan", a Timestamp (held as YYYY-MM-DD) with its time part
PyStr(c) ==
    CASE c.t = "str"  -> c.s
      [] c.t = "num"  -> IntStr(c.n)
      [] c.t = "date" -> c.s \o <<" ", "0", "0", ":", "0", "0", ":", "0", "0">>
      [] c.t = "nan"  -> <<"n", "a", "n">>

\* one element of  df[col] == value : values of different types are unequal,
\* and an empty cell equals nothing
PdEq(a, b) == a.t = b.t /\ a.t # "nan" /\ a = b

\* pd.notna(value)
NotNa(c) == c.t # "nan"

SHEET1_COLS == [A |-> 0, C |-> 2, G |-> 6, E |-> 4]

SHEET2_COLS == [B |-> 1, J |-> 9]

SHEET3_COLS == [B |-> 1, J |-> 9, K |-> 10, L |-> 11]

COMMON_MATCH_COL == [G |-> 6]

SHEET4_COLS == [C |-> 2, I |-> 8, S |-> 18]

\* A sheet row is a function from the column indices the program reads to cells.
Sheet1Row(a, c, g, e) ==
    (SHEET1_COLS.A :> a) @@ (SHEET1_COLS.C :> c) @@ (SHEET1_COLS.G :> g)
        @@ (SHEET1_COLS.E :> e)

Sheet2Row(g, b, j) ==
    (COMMON_MATCH_COL.G :> g) @@ (SHEET2_COLS.B :> b) @@ (SHEET2_COLS.J :> j)

Sheet3Row(g, b, k, l) ==
    (COMMON_MATCH_COL.G :> g) @@ (SHEET3_COLS.B :> b) @@ (SHEET3_COLS.K :> k)
        @@ (SHEET3_COLS.L :> l)

Sheet4Row(c, i, s) ==
    (SHEET4_COLS.C :> c) @@ (SHEET4_COLS.I :> i) @@ (SHEET4_COLS.S :> s)

\* a row of a sheet 4 that ends before column S
Sheet4RowNoS(c, i) == (SHEET4_COLS.C :> c) @@ (SHEET4_COLS.I :> i)

Malzeme == <<"M", "a", "l", "z", "e", "m", "e">>

HEADER_LABELS ==
    << <<"U.Agaci Sev">>, Malzeme, <<"Aciklama">>, <<"Miktar">>,
       <<"Depo 100">>, <<"Kullanilabilir Stok">>,
       <<"Depo 110">>, <<"Kullanilabilir Stok">>, <<"Kalite Stogu">>,
       <<"Ihtiyac">>, <<"Durum">>,
       <<"Verilen Siparis Miktari">>, <<"Verilmesi Gereken Siparis Miktari">>,
       <<"Teslim Tarihi">> >>

\* "#SİPARİŞ VER"
SiparisVer == <<"#", "S", "I", "P", "A", "R", "I", "S", " ", "V", "E", "R">>

\* "FSNKP"
Fsnkp == <<"F", "S", "N", "K", "P">>

\* _to_float(item)
ToFloat(text) ==
    IF Len(text) = 0 THEN 0
    ELSE Once(LAMBDA p : IF p.ok THEN p.val ELSE 0,
              Once(PyFloat, Replace(text, ",", <<".">>)))

\* _to_float_series(value); the nan of an empty cell is skipped by .sum()
ToFloatSeries(value) ==
    CASE value.t = "str" ->
             Once(LAMBDA p : IF p.ok THEN p.val ELSE 0,
                  Once(PyFloat,
                       Once(LAMBDA s : Replace(s, ",", <<".">>),
                            Replace(value.s, ".", <<>>))))
      [] value.t = "num" -> value.n
      [] OTHER -> 0

\* matches[col].apply(self._to_float_series).sum()
SumColumn(matches, col) ==
    LET r[k \in 0..Len(matches)] ==
            IF k = 0 THEN 0 ELSE r[k - 1] + ToFloatSeries(matches[k][col])
    IN r[Len(matches)]

\* df[df[col] == value]
Matches(df, col, value) == SelectSeq(df, LAMBDA x : PdEq(x[col], value))

\* df[col] does not raise KeyError: the sheet has the column.  A sheet with
\* no data rows is read as a DataFrame without columns.
HasCol(df, col) == Len(df) > 0 /\ col \in DOMAIN df[1]

(***************************************************************************)
(* The QTableWidget: a sequence of rows, each with its 14 item texts       *)
(* (cells[c + 1] is the item of column c) and the Qt.ItemIsEditable flag   *)
(* of its column-9 item, which only data rows keep.                        *)
(***************************************************************************)
NCols == Len(HEADER_LABELS)

\* self.table.item(row, col).text() on a row
Text(r, col) == r.cells[col + 1]

\* item.setText(text) / setItem(row, col, QTableWidgetItem(text)) on a row
SetText(r, col, text) == [r EXCEPT !.cells[col + 1] = text]

\* r_idx in self.highlighted_rows
Highlighted(hl, r_idx) == \E k \in 1..Len(hl) : hl[k] = r_idx

\* _update_l_column(row), on the row it rewrites
UpdateLColumn(r) ==
    LET f_val == ToFloat(Text(r, 5))
        i_val == ToFloat(Text(r, 7))
        j_val == ToFloat(Text(r, 8))
        k_val == ToFloat(Text(r, 9))
        DurumText(result) ==
            IF result < 0 THEN FloatStr(result) \o <<" ">> \o SiparisVer
            ELSE FloatStr(result)
    IN Once(LAMBDA text : SetText(r, 10, text),
            Once(DurumText, f_val + i_val + j_val - k_val))

\* verilen_siparis_miktari of _update_order_quantities
VerilenSiparisMiktari(malzeme_val, df4) ==
    LET Sum(s4_matches) ==
            IF Len(s4_matches) > 0 THEN SumColumn(s4_matches, SHEET4_COLS.I) ELSE 0
    IN Once(Sum, Matches(df4, SHEET4_COLS.C, StrCell(malzeme_val)))

\* durum_numeric_val of _update_order_quantities
DurumNumericVal(durum) ==
    IF Contains(durum, SiparisVer)
    THEN Once(LAMBDA p : IF p.ok THEN p.val ELSE 0,
              Once(PyFloat,
                   Once(LAMBDA s : Replace(s, ",", <<".">>),
                        SplitFirst(durum, <<" ">> \o SiparisVer))))
    ELSE 0

\* as VerilmesiGereken, without the test net_need > 0
VerilmesiGerekenNoClamp(durum_numeric_val, verilen) ==
    IF durum_numeric_val < 0 THEN Abs(durum_numeric_val) - verilen ELSE 0

\* verilmesi_gereken_siparis_miktari of _update_order_quantities
VerilmesiGereken(durum_numeric_val, verilen) ==
    LET net_need == Abs(durum_numeric_val) - verilen
    IN IF durum_numeric_val < 0
       THEN (IF net_need > 0 THEN net_need ELSE 0)
       ELSE 0

\* _update_order_quantities(row, df4), on the row it rewrites
UpdateOrderQuantities(r, df4) ==
    LET Write(verilen, durum_numeric_val) ==
            SetText(SetText(r, 11, FloatStr(verilen)),
                    12, FloatStr(VerilmesiGereken(durum_numeric_val, verilen)))
    IN Once(LAMBDA v : Write(v[1], v[2]),
            <<VerilenSiparisMiktari(Text(r, 1), df4), DurumNumericVal(Text(r, 10))>>)

\* strftime('%d.%m.%Y') of a Timestamp held as YYYY-MM-DD
StrfTime(s) == SubSeq(s, 9, 10) \o <<".">> \o SubSeq(s, 6, 7) \o <<".">> \o SubSeq(s, 1, 4)

\* the "Teslim Tarihi" text of a data row (_populate_table, second loop).
\* Text cells of column S are texts pd.to_datetime rejects.
TeslimTarihi(r, df4) ==
    LET Format(raw_date) ==
            IF raw_date.t = "date" THEN StrfTime(raw_date.s)
            ELSE IF NotNa(raw_date) THEN PyStr(raw_date) ELSE <<>>
        First(s4_delivery_matches) ==
            IF Len(s4_delivery_matches) = 0 THEN <<>>
            ELSE Format(s4_delivery_matches[1][SHEET4_COLS.S])
    IN Once(First, Matches(df4, SHEET4_COLS.C, StrCell(Text(r, 1))))

(***************************************************************************)
(* _populate_table                                                         *)
(***************************************************************************)
\* is_kit_code
IsKitCode(raw) == Contains(raw, <<"-">>) /\ \E i \in 1..Len(raw) : IsAlpha(raw[i])

\* a header at the first row only
AddNewBlockHeaderFirstOnly(r_original_idx, raw, active) == r_original_idx = 0

\* a header at the first row and at every row whose text differs from the
\* active one, kit code or not
AddNewBlockHeaderAnyText(r_original_idx, raw, active) ==
    \/ r_original_idx = 0
    \/ active.none \/ raw # active.text

\* add_new_block_header for the row of index r_original_idx; active is the
\* text of active_kit_code_for_block, or None
AddNewBlockHeader(r_original_idx, raw, active) ==
    \/ r_original_idx = 0
    \/ IsKitCode(raw) /\ (active.none \/ raw # active.text)

\* block_header_row_content, as the items of a row nobody can edit
BlockHeaderRow(code) ==
    [editable |-> FALSE, cells |-> <<code>> \o Tail(HEADER_LABELS)]

\* current_data_row with the reference cells of the last matching rows
CurrentDataRowLastRef(row, df2, df3) ==
    LET match_val == row[SHEET1_COLS.C]
        Row(s2_matches, s3_matches) ==
          LET s2_found == Len(s2_matches) > 0
              s3_found == Len(s3_matches) > 0
          IN
       [editable |-> TRUE,
        cells |->
          << PyStr(row[SHEET1_COLS.A]),
             PyStr(row[SHEET1_COLS.C]),
             PyStr(row[SHEET1_COLS.G]),
             PyStr(row[SHEET1_COLS.E]),
             IF s2_found THEN PyStr(s2_matches[Len(s2_matches)][SHEET2_COLS.B]) ELSE <<>>,
             IF s2_found THEN FloatStr(SumColumn(s2_matches, SHEET2_COLS.J)) ELSE <<>>,
             IF s3_found THEN PyStr(s3_matches[Len(s3_matches)][SHEET3_COLS.B]) ELSE <<>>,
             IF s3_found THEN FloatStr(SumColumn(s3_matches, SHEET3_COLS.K)) ELSE <<>>,
             IF s3_found THEN FloatStr(SumColumn(s3_matches, SHEET3_COLS.L)) ELSE <<>>,
             <<>>, <<>>, <<>>, <<>>, <<>> >>]
    IN Once(LAMBDA m : Row(m[1], m[2]),
            <<Matches(df2, COMMON_MATCH_COL.G, match_val),
              Matches(df3, COMMON_MATCH_COL.G, match_val)>>)

\* current_data_row for one row of sheet 1
CurrentDataRow(row, df2, df3) ==
    LET match_val == row[SHEET1_COLS.C]
        Row(s2_matches, s3_matches) ==
          LET s2_found == Len(s2_matches) > 0
              s3_found == Len(s3_matches) > 0
          IN
       [editable |-> TRUE,
        cells |->
          << PyStr(row[SHEET1_COLS.A]),
             PyStr(row[SHEET1_COLS.C]),
             PyStr(row[SHEET1_COLS.G]),
             PyStr(row[SHEET1_COLS.E]),
             IF s2_found THEN PyStr(s2_matches[1][SHEET2_COLS.B]) ELSE <<>>,
             IF s2_found THEN FloatStr(SumColumn(s2_matches, SHEET2_COLS.J)) ELSE <<>>,
             IF s3_found THEN PyStr(s3_matches[1][SHEET3_COLS.B]) ELSE <<>>,
             IF s3_found THEN FloatStr(SumColumn(s3_matches, SHEET3_COLS.K)) ELSE <<>>,
             IF s3_found THEN FloatStr(SumColumn(s3_matches, SHEET3_COLS.L)) ELSE <<>>,
             <<>>, <<>>, <<>>, <<>>, <<>> >>]
    IN Once(LAMBDA m : Row(m[1], m[2]),
            <<Matches(df2, COMMON_MATCH_COL.G, match_val),
              Matches(df3, COMMON_MATCH_COL.G, match_val)>>)

\* the rows of sheet 1 without the later rows of a repeated material code
SheetRowsDedup(df1) ==
    LET f[k \in 0..Len(df1)] ==
            IF k = 0 THEN <<>>
            ELSE IF \E j \in 1..(k - 1) :
                       PyStr(df1[j][SHEET1_COLS.C]) = PyStr(df1[k][SHEET1_COLS.C])
                 THEN f[k - 1]
                 ELSE Append(f[k - 1], df1[k])
    IN f[Len(df1)]

\* the rows of sheet 1 without those whose column A or C is empty
SheetRowsDropNa(df1) ==
    SelectSeq(df1, LAMBDA row : NotNa(row[SHEET1_COLS.A]) /\ NotNa(row[SHEET1_COLS.C]))

\* the rows of sheet 1 without those whose material code holds 3 or more "-"
SheetRowsDropHyphens(df1) ==
    SelectSeq(df1, LAMBDA row : Count(PyStr(row[SHEET1_COLS.C]), "-") < 3)

\* the rows the first loop walks: df1.itertuples(index=False), every row of
\* sheet 1 in sheet order
SheetRows(df1) == df1

\* the iteration of the first loop for a row that becomes a data row raises
\* KeyError: sheet 2 or sheet 3 lacks the match column, or a column read from
\* the matching rows
FirstLoopRaises(row, df2, df3) ==
    LET match_val == row[SHEET1_COLS.C]
    IN \/ ~HasCol(df2, COMMON_MATCH_COL.G)
       \/ /\ \E k \in 1..Len(df2) : PdEq(df2[k][COMMON_MATCH_COL.G], match_val)
          /\ ~(HasCol(df2, SHEET2_COLS.B) /\ HasCol(df2, SHEET2_COLS.J))
       \/ ~HasCol(df3, COMMON_MATCH_COL.G)
       \/ /\ \E k \in 1..Len(df3) : PdEq(df3[k][COMMON_MATCH_COL.G], match_val)
          /\ ~(/\ HasCol(df3, SHEET3_COLS.B)
               /\ HasCol(df3, SHEET3_COLS.K)
               /\ HasCol(df3, SHEET3_COLS.L))

\* one iteration of the first loop, without the skip of the row at which the
\* header is added
FinalTableStepNoSkip(prev, row, r_original_idx, df2, df3) ==
    LET raw == PyStr(row[SHEET1_COLS.A])
    IN IF prev.raised THEN prev
       ELSE IF AddNewBlockHeader(r_original_idx, raw, prev.active)
       THEN IF FirstLoopRaises(row, df2, df3)
            THEN [content |-> Append(prev.content, BlockHeaderRow(raw)),
                  hl      |-> Append(prev.hl, Len(prev.content)),
                  active  |-> [none |-> FALSE, text |-> raw],
                  raised  |-> TRUE]
            ELSE [content |-> Append(Append(prev.content, BlockHeaderRow(raw)),
                                     CurrentDataRow(row, df2, df3)),
                  hl      |-> Append(prev.hl, Len(prev.content)),
                  active  |-> [none |-> FALSE, text |-> raw],
                  raised  |-> FALSE]
       ELSE IF FirstLoopRaises(row, df2, df3) THEN [prev EXCEPT !.raised = TRUE]
       ELSE [prev EXCEPT !.content = Append(@, CurrentDataRow(row, df2, df3))]

\* one iteration of the first loop of _populate_table: final_table_content,
\* highlighted_rows and active_kit_code_for_block after the row, from those
\* before it; raised: an exception has left the loop.  The row at which a
\* header is added is itself skipped (skip_next_data_row_after_header is set
\* and consumed in the same iteration).
FinalTableStep(prev, row, r_original_idx, df2, df3) ==
    LET raw == PyStr(row[SHEET1_COLS.A])
    IN IF prev.raised THEN prev
       ELSE IF AddNewBlockHeader(r_original_idx, raw, prev.active)
       THEN [content |-> Append(prev.content, BlockHeaderRow(raw)),
             hl      |-> Append(prev.hl, Len(prev.content)),
             active  |-> [none |-> FALSE, text |-> raw],
             raised  |-> FALSE]
       ELSE IF FirstLoopRaises(row, df2, df3) THEN [prev EXCEPT !.raised = TRUE]
       ELSE [prev EXCEPT !.content = Append(@, CurrentDataRow(row, df2, df3))]

\* the first loop of _populate_table
FinalTableContent(df1, df2, df3) ==
    LET Walk(rows) ==
            LET st[k \in 0..Len(rows)] ==
                    IF k = 0
                    THEN [content |-> <<>>, hl |-> <<>>,
                          active |-> [none |-> TRUE, text |-> <<>>],
                          raised |-> FALSE]
                    ELSE Once(LAMBDA prev :
                                 FinalTableStep(prev, rows[k], k - 1, df2, df3),
                              st[k - 1])
            IN st[Len(rows)]
    IN Once(Walk, SheetRows(df1))

\* the second loop: status, order quantities and delivery date of every row
\* that is not highlighted
Recompute(r, df4) ==
    Once(LAMBDA a : UpdateOrderQuantities(a, df4), UpdateLColumn(r))

DeriveRow(r, df4) ==
    Once(LAMBDA b : SetText(b, 13, TeslimTarihi(b, df4)), Recompute(r, df4))

\* _update_order_quantities(row, df4) raises KeyError on the row
OrderQuantitiesRaise(r, df4) ==
    \/ ~HasCol(df4, SHEET4_COLS.C)
    \/ /\ \E k \in 1..Len(df4) : PdEq(df4[k][SHEET4_COLS.C], StrCell(Text(r, 1)))
       /\ ~HasCol(df4, SHEET4_COLS.I)

\* the delivery date of the row cannot be read: a row of sheet 4 matches and
\* the sheet has no column S
TeslimTarihiRaises(r, df4) ==
    /\ HasCol(df4, SHEET4_COLS.C)
    /\ \E k \in 1..Len(df4) : PdEq(df4[k][SHEET4_COLS.C], StrCell(Text(r, 1)))
    /\ ~HasCol(df4, SHEET4_COLS.S)

\* _populate_table: the items of the table and highlighted_rows when it
\* returns or is left by an exception.  raised = "build": left in the first
\* loop, the items of the table not yet touched (table is not meaningful);
\* raised = "derive": left in the second loop, at the first data row for which
\* sheet 4 cannot be read, rows before it derived, that row in part, rows
\* after it as filled in.
PopulatedTable(df1, df2, df3, df4) ==
    LET Derived(built) ==
            LET failing == {i \in 1..Len(built.content) :
                              /\ ~Highlighted(built.hl, i - 1)
                              /\ \/ OrderQuantitiesRaise(built.content[i], df4)
                                 \/ TeslimTarihiRaises(built.content[i], df4)}
                first   == IF failing = {} THEN Len(built.content) + 1
                           ELSE CHOOSE i \in failing : \A j \in failing : i <= j
            IN [table |-> [i \in 1..Len(built.content) |->
                             IF Highlighted(built.hl, i - 1) \/ i > first
                             THEN built.content[i]
                             ELSE IF i < first
                             THEN Once(LAMBDA r : DeriveRow(r, df4), built.content[i])
                             ELSE IF OrderQuantitiesRaise(built.content[i], df4)
                             THEN UpdateLColumn(built.content[i])
                             ELSE Once(LAMBDA r : Recompute(r, df4), built.content[i])],
                highlighted_rows |-> built.hl,
                raised |-> IF failing = {} THEN "no" ELSE "derive"]
        Outcome(built) ==
            IF built.raised
            THEN [table |-> <<>>, highlighted_rows |-> built.hl, raised |-> "build"]
            ELSE Derived(built)
    IN Once(Outcome, FinalTableContent(df1, df2, df3))

\* self._updating after the loop of _populate_table that fills the items,
\* when cellChanged is connected: setItem(r_idx, 9, ...) of a data row calls
\* _cell_changed(r_idx, 9), which returns at its guard when _updating is set,
\* and otherwise finds the empty text, sets _updating, recomputes the row and
\* resets _updating, unless _update_order_quantities raises KeyError
FillLoopUpdating(upd, tbl, hl, df4) ==
    LET u[k \in 0..Len(tbl)] ==
            IF k = 0 THEN upd
            ELSE IF u[k - 1] \/ Highlighted(hl, k - 1) THEN u[k - 1]
            ELSE OrderQuantitiesRaise(tbl[k], df4)
    IN u[Len(tbl)]

(***************************************************************************)
(* _cell_changed                                                           *)
(***************************************************************************)
\* _cell_changed with the typed text coerced as the cells of the sheets are
\* ("." removed, "," replaced by ".", 0 for a text that is no number)
CellChangedTableToNumber(tbl, hl, upd, df4, row, col) ==
    LET Propagate(k_input_value) ==
            [i \in 1..Len(tbl) |->
                IF i - 1 < row \/ Highlighted(hl, i - 1) THEN tbl[i]
                ELSE LET d_val == ToFloat(Text(tbl[i], 3))
                         calculated_k_value == d_val * k_input_value
                     IN Once(LAMBDA r : Recompute(r, df4),
                             SetText(tbl[i], 9, FloatStr(calculated_k_value)))]
    IN IF upd \/ col # 9 \/ Highlighted(hl, row) THEN tbl
       ELSE Once(Propagate, ToFloatSeries(StrCell(Text(tbl[row + 1], col))))

\* _cell_changed propagating the typed value to every row from the changed
\* one down, the highlighted ones included
CellChangedTableNoSkip(tbl, hl, upd, df4, row, col) ==
    LET Invalid ==
            [tbl EXCEPT ![row + 1] =
                Once(LAMBDA r : Recompute(r, df4), SetText(@, col, <<>>))]
        Propagate(k_input_value) ==
            [i \in 1..Len(tbl) |->
                IF i - 1 < row THEN tbl[i]
                ELSE LET d_val == ToFloat(Text(tbl[i], 3))
                         calculated_k_value == d_val * k_input_value
                     IN Once(LAMBDA r : Recompute(r, df4),
                             SetText(tbl[i], 9, FloatStr(calculated_k_value)))]
    IN IF upd \/ col # 9 \/ Highlighted(hl, row) THEN tbl
       ELSE Once(LAMBDA k : IF k.ok THEN Propagate(k.val) ELSE Invalid,
                 Once(PyFloat, Replace(Text(tbl[row + 1], col), ",", <<".">>)))

\* the table after _cell_changed(row, col) has run
CellChangedTable(tbl, hl, upd, df4, row, col) ==
    LET Invalid ==
            [tbl EXCEPT ![row + 1] =
                Once(LAMBDA r : Recompute(r, df4), SetText(@, col, <<>>))]
        Propagate(k_input_value) ==
            [i \in 1..Len(tbl) |->
                IF i - 1 < row \/ Highlighted(hl, i - 1) THEN tbl[i]
                ELSE LET d_val == ToFloat(Text(tbl[i], 3))
                         calculated_k_value == d_val * k_input_value
                     IN Once(LAMBDA r : Recompute(r, df4),
                             SetText(tbl[i], 9, FloatStr(calculated_k_value)))]
    IN IF upd \/ col # 9 \/ Highlighted(hl, row) THEN tbl
       ELSE Once(LAMBDA k : IF k.ok THEN Propagate(k.val) ELSE Invalid,
                 Once(PyFloat, Replace(Text(tbl[row + 1], col), ",", <<".">>)))

\* _cell_changed(row, col) is left by KeyError, with _updating set: it has
\* passed its guard and _update_order_quantities raises on the changed row
\* (text that is no number) or on a row the value is propagated to
CellChangedRaises(tbl, hl, upd, df4, row, col) ==
    IF upd \/ col # 9 \/ Highlighted(hl, row) THEN FALSE
    ELSE \E k \in {PyFloat(Replace(Text(tbl[row + 1], col), ",", <<".">>))} :
            IF k.ok
            THEN \E i \in (row + 1)..Len(tbl) :
                    ~Highlighted(hl, i - 1) /\ OrderQuantitiesRaise(tbl[i], df4)
            ELSE OrderQuantitiesRaise(tbl[row + 1], df4)

(***************************************************************************)
(* _process_fsnkp_rows                                                     *)
(***************************************************************************)
\* the merge test with the description of the previous row in place of the
\* current one
FsnkpMatchPrevAciklama(tbl, r_idx) ==
    /\ Text(tbl[r_idx + 1], 1) = Text(tbl[r_idx], 1)
    /\ Contains(Text(tbl[r_idx], 2), Fsnkp)
    /\ Text(tbl[r_idx + 1], 1) # Malzeme

\* the merge test of one step of the backward loop
FsnkpMatch(tbl, r_idx) ==
    LET current_malzeme  == Text(tbl[r_idx + 1], 1)
        prev_malzeme     == Text(tbl[r_idx], 1)
        current_aciklama == Text(tbl[r_idx + 1], 2)
    IN /\ current_malzeme = prev_malzeme
       /\ Contains(current_aciklama, Fsnkp)
       /\ current_malzeme # Malzeme

\* the status text of the previous row after a match
MarkFsnkp(durum) ==
    IF Contains(durum, <<"#">> \o Fsnkp) THEN durum
    ELSE durum \o <<" ", "#">> \o Fsnkp

\* one iteration of the backward loop that marks the current row for removal
\* and leaves the status of the previous row as it is
FsnkpStepNoMark(prev, r_idx) ==
    IF FsnkpMatch(prev.table, r_idx)
    THEN [prev EXCEPT !.rows_to_remove = @ \cup {r_idx}]
    ELSE prev

\* one iteration of the backward loop that builds the new status from the
\* status of the current row, not of the previous one
FsnkpStepCurrentDurum(prev, r_idx) ==
    IF FsnkpMatch(prev.table, r_idx)
    THEN [table |-> [prev.table EXCEPT ![r_idx] =
                        SetText(@, 10,
                                IF Contains(Text(@, 10), <<"#">> \o Fsnkp)
                                THEN Text(@, 10)
                                ELSE Text(prev.table[r_idx + 1], 10)
                                         \o <<" ", "#">> \o Fsnkp)],
          rows_to_remove |-> prev.rows_to_remove \cup {r_idx}]
    ELSE prev

\* one iteration of the backward loop, for r_idx: the table and
\* rows_to_remove after it, from those before it
FsnkpStep(prev, r_idx) ==
    IF FsnkpMatch(prev.table, r_idx)
    THEN [table |-> [prev.table EXCEPT ![r_idx] =
                        SetText(@, 10, MarkFsnkp(Text(@, 10)))],
          rows_to_remove |-> prev.rows_to_remove \cup {r_idx}]
    ELSE prev

\* the backward loop: the table and rows_to_remove once r_idx has been handled,
\* for r_idx = rowCount - 1 down to 1 (k = rowCount stands for "not started")
FsnkpLoop(tbl) ==
    LET n == Len(tbl)
        st[k \in 1..Len(tbl)] ==
            IF k = n THEN [table |-> tbl, rows_to_remove |-> {}]
            ELSE Once(LAMBDA prev : FsnkpStep(prev, k), st[k + 1])
    IN IF n = 0 THEN [table |-> tbl, rows_to_remove |-> {}] ELSE st[1]

\* removeRow for every index in rows_to_remove
RemoveRows(tbl, rows_to_remove) ==
    LET keep == {i \in 1..Len(tbl) : (i - 1) \notin rows_to_remove}
        f[k \in 0..Len(tbl)] ==
            IF k = 0 THEN <<>>
            ELSE IF k \in keep THEN Append(f[k - 1], tbl[k]) ELSE f[k - 1]
    IN f[Len(tbl)]

\* highlighted_rows re-derived: the rows whose column 1 reads "Malzeme"
RederiveHighlighted(tbl) ==
    LET f[k \in 0..Len(tbl)] ==
            IF k = 0 THEN <<>>
            ELSE IF Text(tbl[k], 1) = Malzeme THEN Append(f[k - 1], k - 1)
            ELSE f[k - 1]
    IN f[Len(tbl)]

FsnkpProcessed(tbl) ==
    LET Removed(swept) == RemoveRows(swept.table, swept.rows_to_remove)
        Result(removed) ==
            [table |-> removed, highlighted_rows |-> RederiveHighlighted(removed)]
    IN Once(Result, Once(Removed, FsnkpLoop(tbl)))

(***************************************************************************)
(* Inputs: the cells the four sheets are drawn from                        *)
(***************************************************************************)
MaxRows == 3

MaxBuildRows == 4

KitH1 == StrCell(<<"H", "-", "1">>)

KitK2 == StrCell(<<"K", "-", "2">>)

Plain55 == NumCell(55)

CodeX == StrCell(<<"X">>)

CodeY == StrCell(<<"Y">>)

CodeHyphens == StrCell(<<"B", "-", "2", "-", "-", "-", "3">>)

CodeMalzeme == StrCell(Malzeme)

\* a material code held as a number, and the same digits held as a text
Code7 == NumCell(7)

Code7Text == StrCell(<<"7">>)

DescPlain == StrCell(<<"x">>)

DescFsnkp == StrCell(<<"x", "F", "S", "N", "K", "P">>)

\* rows of sheet 1 for the specification with need edits
EditRows ==
    { Sheet1Row(KitH1, CodeX, DescPlain, NumCell(2)),
      Sheet1Row(KitH1, CodeX, DescFsnkp, NumCell(3)),
      Sheet1Row(KitK2, CodeY, DescPlain, StrCell(<<"a", "d", "e", "t">>)),
      Sheet1Row(KitH1, CodeMalzeme, DescFsnkp, NumCell(3)),
      Sheet1Row(Plain55, Code7, DescPlain, NumCell(2)) }

\* rows of sheet 1 for the specification of the build and the FSNKP pass
BuildRows ==
    { Sheet1Row(KitH1, CodeX, DescPlain, NumCell(2)),
      Sheet1Row(KitH1, CodeX, DescFsnkp, NumCell(3)),
      Sheet1Row(KitK2, CodeY, DescPlain, NumCell(3)),
      Sheet1Row(Plain55, CodeY, DescFsnkp, NumCell(2)),
      Sheet1Row(KitH1, CodeHyphens, DescPlain, NumCell(2)),
      Sheet1Row(NaN, NaN, DescPlain, NumCell(2)),
      Sheet1Row(KitK2, CodeMalzeme, DescFsnkp, NumCell(2)) }

\* sheet 2: without data rows, or with rows for X (twice), Y, 'Malzeme', the
\* number 7 and the text "7"
Sheet2Tables ==
    { <<>>,
      << Sheet2Row(CodeX, StrCell(<<"D", "1">>), NumCell(1)),
         Sheet2Row(CodeY, StrCell(<<"D", "2">>), NumCell(4)),
         Sheet2Row(CodeX, StrCell(<<"D", "3">>), StrCell(<<"1", ",", "0">>)),
         Sheet2Row(CodeMalzeme, StrCell(<<"D", "4">>), NumCell(-6)),
         Sheet2Row(Code7Text, StrCell(<<"D", "5">>), NumCell(1)),
         Sheet2Row(Code7, StrCell(<<"D", "6">>), NumCell(2)) >> }

Sheet3Tables ==
    { << Sheet3Row(CodeX, StrCell(<<"R", "1">>), NumCell(1), NumCell(2)),
         Sheet3Row(CodeMalzeme, StrCell(<<"R", "2">>), NumCell(1),
                   StrCell(<<"y", "o", "k">>)) >> }

\* sheet 4: two sheets with all columns, and one that ends before column S
Sheet4Tables ==
    { << Sheet4Row(CodeX, NumCell(1), DateCell(<<"2", "0", "2", "4", "-", "0", "1",
                                                  "-", "3", "1">>)),
         Sheet4Row(CodeX, NumCell(3), NaN),
         Sheet4Row(CodeY, NumCell(9), NaN),
         Sheet4Row(Code7, NumCell(5), NaN) >>,
      << Sheet4Row(CodeX, NumCell(-4), StrCell(<<"y", "o", "k">>)),
         Sheet4Row(CodeX, StrCell(<<"y", "o", "k">>), NaN) >>,
      << Sheet4RowNoS(CodeY, NumCell(2)) >> }

\* the sheets 2, 3 and 4 of the specification of the build
BuildSheet2 ==
    << Sheet2Row(CodeX, StrCell(<<"D", "1">>), NumCell(1)) >>

BuildSheet3 ==
    << Sheet3Row(CodeY, StrCell(<<"R", "1">>), NumCell(1), NumCell(2)) >>

BuildSheet4 ==
    << Sheet4Row(CodeY, NumCell(9), NaN) >>

\* the files of the specification in which a second file is selected: sheet 1
\* of up to MaxReloadRows rows, sheets 2 and 3 fixed, and a sheet 4 that is
\* complete, or has no data rows, or ends before column S
MaxReloadRows == 2

ReloadRows ==
    { Sheet1Row(KitH1, CodeX, DescPlain, NumCell(2)),
      Sheet1Row(KitH1, CodeX, DescFsnkp, NumCell(3)) }

ReloadSheet4 ==
    { << Sheet4Row(CodeX, NumCell(3), NaN) >>,
      <<>>,
      << Sheet4RowNoS(CodeX, NumCell(2)) >> }

\* the text typed into a need cell
NeedTexts ==
    { <<"4">>, <<"1", ",", "0">>, <<"a", "b", "c">>, <<"1", ".", "2", ",", "0">> }

SeqsUpTo(S, n) == UNION {[1..k -> S] : k \in 0..n}

(***************************************************************************)
(* State                                                                   *)
(***************************************************************************)
VARIABLES
    sheet_names,            \* the number of sheets of the selected file
    df1, df2, df3, df4,     \* the first four sheets: self.excel_data["s1"] .. ["s4"]
    table,                  \* self.table
    highlighted_rows,       \* self.highlighted_rows
    updating,               \* self._updating
    cell_connected,         \* self._cell_connected: cellChanged is connected
                            \* to _cell_changed
    pc                      \* "selected": file chosen, _load_excel not run;
                            \* "load_failed": _load_excel has reported an error;
                            \* "loaded": sheets loaded, table page not opened;
                            \* "populated": in _open_table_page, after
                            \* _populate_table; "table": the table page is shown;
                            \* "failed": _open_table_page was left by an
                            \* exception and the program goes on;
                            \* "aborted": the exception has ended the program

vars == <<sheet_names, df1, df2, df3, df4, table, highlighted_rows, updating,
          cell_connected, pc>>

sheets == <<sheet_names, df1, df2, df3, df4>>

\* a file has been selected: one with fewer than 4 sheets (its sheets are
\* never read), or one with 4 sheets
Init ==
    /\ \/ /\ sheet_names = 3
          /\ df1 = <<>> /\ df2 = <<>> /\ df3 = <<>> /\ df4 = <<>>
       \/ /\ sheet_names = 4
          /\ df1 \in SeqsUpTo(EditRows, MaxRows)
          /\ df2 \in Sheet2Tables
          /\ df3 \in Sheet3Tables
          /\ df4 \in Sheet4Tables
    /\ table = <<>>
    /\ highlighted_rows = <<>>
    /\ updating = FALSE
    /\ cell_connected = FALSE
    /\ pc = "selected"

\* a file of 4 sheets has been loaded
InitBuild ==
    /\ sheet_names = 4
    /\ df1 \in SeqsUpTo(BuildRows, MaxBuildRows)
    /\ df2 = BuildSheet2
    /\ df3 = BuildSheet3
    /\ df4 = BuildSheet4
    /\ table = <<>>
    /\ highlighted_rows = <<>>
    /\ updating = FALSE
    /\ cell_connected = FALSE
    /\ pc = "loaded"

\* the file selected first in the specification with a second file
InitReload ==
    /\ sheet_names = 4
    /\ df1 \in SeqsUpTo(ReloadRows, MaxReloadRows)
    /\ df2 = BuildSheet2
    /\ df3 = BuildSheet3
    /\ df4 \in ReloadSheet4
    /\ table = <<>>
    /\ highlighted_rows = <<>>
    /\ updating = FALSE
    /\ cell_connected = FALSE
    /\ pc = "selected"

\* _select_file with the file page shown, for a file that _load_excel loads
\* (at least 4 sheets): excel_data is replaced and the open button enabled;
\* the table, highlighted_rows, _updating and the connection stay
SelectFile ==
    /\ pc \in {"loaded", "failed", "table"}
    /\ sheet_names' = 4
    /\ df1' \in SeqsUpTo(ReloadRows, MaxReloadRows)
    /\ df2' = BuildSheet2
    /\ df3' = BuildSheet3
    /\ df4' \in ReloadSheet4
    /\ pc' = "loaded"
    /\ UNCHANGED <<table, highlighted_rows, updating, cell_connected>>

\* _load_excel: fewer than 4 sheets raise ValueError, which is reported and
\* leaves excel_data, the table and the open button (disabled) as they are
LoadExcel ==
    /\ pc = "selected"
    /\ pc' = IF sheet_names < 4 THEN "load_failed" ELSE "loaded"
    /\ UNCHANGED <<sheets, table, highlighted_rows, updating, cell_connected>>

\* _open_table_page, first call: _populate_table, which ends by connecting
\* cellChanged
PopulateTable ==
    /\ pc \in {"loaded", "table"}
    /\ \E p \in {PopulatedTable(df1, df2, df3, df4)} :
          /\ p.raised = "no"
          /\ table' = p.table
          /\ highlighted_rows' = p.highlighted_rows
          /\ updating' = IF cell_connected
                          THEN FillLoopUpdating(updating, p.table,
                                                p.highlighted_rows, df4)
                          ELSE updating
    /\ cell_connected' = TRUE
    /\ pc' = "populated"
    /\ UNCHANGED sheets

\* _open_table_page when _populate_table raises KeyError: nothing catches it.
\* Either the program goes on, with the items and highlighted_rows as the
\* exception left them (PyQt5 before 5.5, or with an excepthook installed by
\* the caller), or the slot's exception ends the program (PyQt5 from 5.5 on)
\* and no table is left.
PopulateTableRaises ==
    /\ pc \in {"loaded", "table"}
    /\ \E p \in {PopulatedTable(df1, df2, df3, df4)} :
          /\ p.raised # "no"
          /\ \/ /\ table' = IF p.raised = "build" THEN table ELSE p.table
                /\ highlighted_rows' = p.highlighted_rows
                /\ updating' = IF cell_connected /\ p.raised = "derive"
                                THEN FillLoopUpdating(updating, p.table,
                                                      p.highlighted_rows, df4)
                                ELSE updating
                /\ cell_connected' = cell_connected
                /\ pc' = "failed"
             \/ /\ table' = <<>>
                /\ highlighted_rows' = <<>>
                /\ updating' = FALSE
                /\ cell_connected' = FALSE
                /\ pc' = "aborted"
    /\ UNCHANGED sheets

\* _open_table_page, second call: _process_fsnkp_rows (sets and resets _updating)
ProcessFsnkpRows ==
    /\ pc = "populated"
    /\ \E p \in {FsnkpProcessed(table)} :
          /\ table' = p.table
          /\ highlighted_rows' = p.highlighted_rows
    /\ updating' = FALSE
    /\ pc' = "table"
    /\ UNCHANGED <<sheets, cell_connected>>

\* The user commits text in the need cell of a row whose column-9 item is
\* editable; Qt stores the text and then calls _cell_changed(row, 9), which
\* sets and resets _updating unless it returns at its guard or is left by an
\* exception.
CellChanged(row, text) ==
    /\ pc = "table"
    /\ row \in 0..(Len(table) - 1)
    /\ table[row + 1].editable
    /\ \E edited \in {[table EXCEPT ![row + 1] = SetText(@, 9, text)]} :
          /\ table' = CellChangedTable(edited, highlighted_rows, updating, df4,
                                       row, 9)
          /\ updating' = (updating \/ CellChangedRaises(edited, highlighted_rows,
                                                        updating, df4, row, 9))
    /\ UNCHANGED <<sheets, highlighted_rows, cell_connected, pc>>

Next ==
    \/ LoadExcel
    \/ PopulateTable
    \/ PopulateTableRaises
    \/ ProcessFsnkpRows
    \/ \E row \in 0..MaxRows, text \in NeedTexts : CellChanged(row, text)

NextBuild ==
    \/ PopulateTable
    \/ ProcessFsnkpRows

NextReload ==
    \/ LoadExcel
    \/ SelectFile
    \/ PopulateTable
    \/ PopulateTableRaises
    \/ ProcessFsnkpRows
    \/ \E row \in 0..MaxReloadRows, text \in NeedTexts : CellChanged(row, text)

Spec == Init /\ [][Next]_vars

SpecReload == InitReload /\ [][NextReload]_vars

SpecBuild == InitBuild /\ [][NextBuild]_vars

(***************************************************************************)
(* Reading the table                                                       *)
(***************************************************************************)
\* a block header: the rows _populate_table builds from the header labels
\* are the rows whose items cannot be edited
IsHeader(r) == ~r.editable

DataIdx(tbl) == {i \in 1..Len(tbl) : ~IsHeader(tbl[i])}

\* the number the status text starts with
StatusNumeric(r) == PyFloat(SplitFirst(Text(r, 10), <<" ">>)).val

HasOrderFlag(r) == Contains(Text(r, 10), SiparisVer)

\* stockASum + stockBSumPrimary + stockBSumSecondary
StockSum(r) == ToFloat(Text(r, 5)) + ToFloat(Text(r, 7)) + ToFloat(Text(r, 8))

\* need, an empty need counted as 0
Need(r) == ToFloat(Text(r, 9))

StatusFormulaHolds(r) ==
    /\ StatusNumeric(r) = StockSum(r) - Need(r)
    /\ HasOrderFlag(r) <=> StatusNumeric(r) < 0

\* C1: in every state after the build, the FSNKP pass and any need edits,
\* every non-header record has status.numeric = stock sums - need and carries
\* the order flag iff that number is negative.
C1_StatusFormula ==
    pc = "table" => \A i \in DataIdx(table) : StatusFormulaHolds(table[i])

\* C1 fails only on records whose materialCode reads "Malzeme"
C1_ExceptMalzeme ==
    pc = "table" =>
        \A i \in DataIdx(table) :
            Text(table[i], 1) # Malzeme => StatusFormulaHolds(table[i])

\* float() of the typed text after "," is replaced by "."
Multiplier(text) == PyFloat(Replace(text, ",", <<".">>))

\* the need edit of the claims: applyNeed(p, m) with a multiplier text that parses
NeedPropagated(row, m) ==
    /\ Len(table') = Len(table)
    /\ \A i \in DataIdx(table) :
          IF i - 1 >= row
          THEN /\ Len(Text(table'[i], 9)) > 0
               /\ Need(table'[i]) = ToFloat(Text(table[i], 3)) * m
          ELSE Text(table'[i], 9) = Text(table[i], 9)

\* C2: a need edit with a parseable multiplier m at the data record of
\* position p sets need = quantity * m on every non-header record at a
\* position >= p and leaves the need of every record before p unchanged.
C2_NeedPropagation ==
    [][\A row \in 0..MaxRows, text \in NeedTexts :
          (CellChanged(row, text) /\ Multiplier(text).ok)
              => NeedPropagated(row, Multiplier(text).val)]_vars

\* C2 fails only where a record whose materialCode reads "Malzeme" is involved
C2_ExceptMalzeme ==
    [][\A row \in 0..MaxRows, text \in NeedTexts :
          (/\ CellChanged(row, text)
           /\ Multiplier(text).ok
           /\ \A i \in DataIdx(table) : Text(table[i], 1) # Malzeme)
              => NeedPropagated(row, Multiplier(text).val)]_vars

OrderGiven(r) == ToFloat(Text(r, 11))

OrderRequired(r) == ToFloat(Text(r, 12))

\* C3 as stated: a flagged record has 0 <= orderRequired <= |status.numeric|,
\* an unflagged one has orderRequired = 0, whatever the orders sheet holds.
C3_OrderRequiredBound ==
    pc = "table" =>
        \A i \in DataIdx(table) :
            IF HasOrderFlag(table[i])
            THEN /\ 0 <= OrderRequired(table[i])
                 /\ OrderRequired(table[i]) <= Abs(StatusNumeric(table[i]))
            ELSE OrderRequired(table[i]) = 0

\* C3 amended: a flagged record has 0 <= orderRequired, and
\* orderRequired <= |status.numeric| when the summed ordered quantity is not
\* negative, orderRequired <= |status.numeric| - orderGiven when it is; an
\* unflagged record has orderRequired = 0.
C3_OrderRequiredBoundAmended ==
    pc = "table" =>
        \A i \in DataIdx(table) :
            IF HasOrderFlag(table[i])
            THEN /\ 0 <= OrderRequired(table[i])
                 /\ OrderRequired(table[i]) <=
                        Abs(StatusNumeric(table[i]))
                          - (IF OrderGiven(table[i]) < 0 THEN OrderGiven(table[i]) ELSE 0)
            ELSE OrderRequired(table[i]) = 0

\* a flagged record whose orders exceed the deficit, and one whose orders are
\* negative, after a need edit
C3_Witness ==
    /\ pc = "table"
    /\ \E i \in DataIdx(table) :
          /\ HasOrderFlag(table[i])
          /\ Len(Text(table[i], 9)) > 0
          /\ OrderGiven(table[i]) > Abs(StatusNumeric(table[i]))
          /\ OrderRequired(table[i]) = 0
    /\ \E i \in DataIdx(table) :
          /\ HasOrderFlag(table[i])
          /\ 0 < OrderRequired(table[i])
          /\ OrderRequired(table[i]) < Abs(StatusNumeric(table[i]))

\* ---------------------------------------------------------------------------
\* Properties of the table build and of the duplicate-merge pass (SpecBuild)

FsnkpMarker == <<"#">> \o Fsnkp

\* number of occurrences of sub in s
CountSub(s, sub) ==
    Cardinality({i \in 1..(Len(s) - Len(sub) + 1) :
                    SubSeq(s, i, i + Len(sub) - 1) = sub})

HierarchyCode(k) == PyStr(df1[k][SHEET1_COLS.A])

MaterialCode(k) == PyStr(df1[k][SHEET1_COLS.C])

\* the table row at position k (1-based) is a block header
HeaderAt(k) == k <= Len(table) /\ IsHeader(table[k])

\* adjacent data records i, i+1 of the same material code
SameCodePair(i) ==
    /\ i \in DataIdx(table) /\ i + 1 \in DataIdx(table)
    /\ Text(table[i], 1) = Text(table[i + 1], 1)

\* C4: after the duplicate-merge pass no two adjacent non-header records
\* share the material code while the earlier or the later of them has 'FSNKP'
\* in its description.
C4_NoMarkedPair ==
    pc = "table" =>
        \A i \in 1..Len(table) :
            ~ /\ SameCodePair(i)
              /\ \/ Contains(Text(table[i], 2), Fsnkp)
                 \/ Contains(Text(table[i + 1], 2), Fsnkp)

\* C4 amended: after the duplicate-merge pass no two adjacent non-header
\* records share a material code other than the text 'Malzeme' while the
\* later of them has 'FSNKP' in its description.
C4_NoMarkedSuccessor ==
    pc = "table" =>
        \A i \in 1..Len(table) :
            ~ /\ SameCodePair(i)
              /\ Text(table[i], 1) # Malzeme
              /\ Contains(Text(table[i + 1], 2), Fsnkp)

\* the pass has removed a marked successor, and a marked record that opens a
\* run of its code is still followed by an unmarked record of that code
C4_Witness ==
    /\ pc = "table"
    /\ Len(table) < Len(df1)
    /\ \E i \in DataIdx(table) : Contains(Text(table[i], 10), FsnkpMarker)
    /\ \E i \in 1..Len(table) :
          /\ SameCodePair(i)
          /\ Contains(Text(table[i], 2), Fsnkp)
          /\ ~Contains(Text(table[i + 1], 2), Fsnkp)

\* C5: after the duplicate-merge pass, and after the pass applied again to
\* its own result, the token '#FSNKP' occurs at most once in the status text
\* of every record.
C5_MarkerAtMostOnce ==
    pc = "table" =>
        /\ \A i \in 1..Len(table) : CountSub(Text(table[i], 10), FsnkpMarker) <= 1
        /\ \A again \in {FsnkpProcessed(table).table} :
              \A i \in 1..Len(again) : CountSub(Text(again[i], 10), FsnkpMarker) <= 1

\* a run of three records of one code, the last two marked, has been folded
\* into its first record
C5_Witness ==
    /\ pc = "table"
    /\ Len(df1) - Len(table) >= 2
    /\ \E k \in 2..(Len(df1) - 2) :
          /\ MaterialCode(k) = MaterialCode(k + 1)
          /\ MaterialCode(k) = MaterialCode(k + 2)
          /\ Contains(PyStr(df1[k + 1][SHEET1_COLS.G]), Fsnkp)
          /\ Contains(PyStr(df1[k + 2][SHEET1_COLS.G]), Fsnkp)
          /\ \E i \in DataIdx(table) :
                /\ Text(table[i], 1) = MaterialCode(k)
                /\ CountSub(Text(table[i], 10), FsnkpMarker) = 1

\* C6: the material code is unique among the data records built from
\* sheet 1.
C6_MaterialCodeUnique ==
    pc \in {"populated", "table"} =>
        \A i, j \in DataIdx(table) :
            Text(table[i], 1) = Text(table[j], 1) => i = j

\* C6 amended: rows of sheet 1 are not deduplicated: before the
\* duplicate-merge pass, every material code is carried by as many data
\* records as there are sheet-1 rows with that code at which no block header
\* is added.
C6_RepeatedCodesKept ==
    pc = "populated" =>
        \A k \in 1..Len(df1) :
            Cardinality({i \in DataIdx(table) : Text(table[i], 1) = MaterialCode(k)})
              = Cardinality({j \in 1..Len(df1) :
                               MaterialCode(j) = MaterialCode(k) /\ ~HeaderAt(j)})

\* two data records of one material code, built from two sheet-1 rows
C6_Witness ==
    /\ pc = "populated"
    /\ \E i, j \in DataIdx(table) :
          /\ i < j
          /\ Text(table[i], 1) = Text(table[j], 1)
          /\ MaterialCode(i) = MaterialCode(j)

\* C7: no data record is built from a sheet-1 row whose material code or
\* hierarchy code is empty (such a cell reads 'nan' in the table).
C7_NoNullRows ==
    pc \in {"populated", "table"} =>
        \A i \in DataIdx(table) :
            /\ Text(table[i], 0) # PyStr(NaN)
            /\ Text(table[i], 1) # PyStr(NaN)

\* C7 amended: rows with an empty material code or hierarchy code are not
\* dropped: before the duplicate-merge pass, each such row at which no block
\* header is added is a data record, whose empty cells read 'nan'.
C7_NullRowsKept ==
    pc = "populated" =>
        \A k \in 1..Len(df1) :
            (~NotNa(df1[k][SHEET1_COLS.A]) \/ ~NotNa(df1[k][SHEET1_COLS.C])) =>
                /\ k <= Len(table)
                /\ \/ HeaderAt(k)
                   \/ /\ Text(table[k], 0) = HierarchyCode(k)
                      /\ Text(table[k], 1) = MaterialCode(k)

\* a data record built from a row with empty codes
C7_Witness ==
    /\ pc = "populated"
    /\ \E k \in DataIdx(table) :
          /\ ~NotNa(df1[k][SHEET1_COLS.C])
          /\ Text(table[k], 1) = PyStr(NaN)

\* C8: no data record has a material code with 3 or more '-' characters.
C8_NoManyHyphens ==
    pc \in {"populated", "table"} =>
        \A i \in DataIdx(table) : Count(Text(table[i], 1), "-") < 3

\* C8 amended: rows whose material code has 3 or more '-' characters are not
\* dropped: before the duplicate-merge pass, each such row at which no block
\* header is added is a data record with that code.
C8_ManyHyphensKept ==
    pc = "populated" =>
        \A k \in 1..Len(df1) :
            Count(MaterialCode(k), "-") >= 3 =>
                /\ k <= Len(table)
                /\ HeaderAt(k) \/ Text(table[k], 1) = MaterialCode(k)

\* a data record whose material code has 3 or more '-' characters, after a
\* repeated code
C8_Witness ==
    /\ pc = "populated"
    /\ \E k \in DataIdx(table) :
          /\ Count(MaterialCode(k), "-") >= 3
          /\ Text(table[k], 1) = MaterialCode(k)
          /\ \E i, j \in 1..(k - 1) : i < j /\ MaterialCode(i) = MaterialCode(j)

\* the hierarchy codes of the block headers of the table, in order
HeaderCodes(tbl) ==
    LET hdrs == SelectSeq(tbl, IsHeader)
    IN [i \in 1..Len(hdrs) |-> Text(hdrs[i], 0)]

\* the hierarchy codes of the sheet-1 rows that open a run of equal codes
RunStarts(rows) ==
    LET idx == SelectSeq([k \in 1..Len(rows) |-> k],
                         LAMBDA k : \/ k = 1
                                    \/ PyStr(rows[k][SHEET1_COLS.A])
                                         # PyStr(rows[k - 1][SHEET1_COLS.A]))
    IN [i \in 1..Len(idx) |-> PyStr(rows[idx[i]][SHEET1_COLS.A])]

\* the hierarchy code of the nearest block header above table position k
ActiveKitCode(k) ==
    LET above == {j \in 1..(k - 1) : HeaderAt(j)}
    IN Text(table[CHOOSE j \in above : \A h \in above : h <= j], 0)

\* C9: the block headers are those of the first row and of every row whose
\* hierarchy code differs from that of the row before it, whatever its text.
C9_HeaderPerRun ==
    pc = "populated" => HeaderCodes(table) = RunStarts(df1)

\* C9 amended: a block header is added exactly at the first row and at every
\* row whose hierarchy code is a kit code (it has a '-' and a letter) and
\* differs from the code of the most recent header; after a row whose code is
\* not a kit code, the kit code of the running block gets no new header.
C9_HeaderPerKitCode ==
    pc = "populated" =>
        /\ Len(table) = Len(df1)
        /\ \A k \in 1..Len(df1) :
              /\ HeaderAt(k) <=>
                    \/ k = 1
                    \/ /\ IsKitCode(HierarchyCode(k))
                       /\ HierarchyCode(k) # ActiveKitCode(k)
              /\ HeaderAt(k) => Text(table[k], 0) = HierarchyCode(k)

\* a row whose code is not a kit code follows a header without a header of
\* its own, the kit code of the block returns after it without a header, and
\* another kit code gets one
C9_Witness ==
    /\ pc = "populated"
    /\ \E k \in 2..(Len(df1) - 1) :
          /\ ~IsKitCode(HierarchyCode(k))
          /\ HierarchyCode(k) # HierarchyCode(k - 1)
          /\ ~HeaderAt(k)
          /\ HierarchyCode(k + 1) = ActiveKitCode(k)
          /\ ~HeaderAt(k + 1)
    /\ \E k \in 2..Len(df1) : HeaderAt(k)

\* the rows kept by a filter that drops rows with an empty code, later rows
\* of a repeated material code and material codes of 3 or more '-'
RowFilter(rows) == SheetRowsDropHyphens(SheetRowsDedup(SheetRowsDropNa(rows)))

\* the material codes of the data records of the table, in order
DataCodes(tbl) ==
    LET recs == SelectSeq(tbl, LAMBDA r : ~IsHeader(r))
    IN [i \in 1..Len(recs) |-> Text(recs[i], 1)]

RunFailed == pc \in {"load_failed", "failed", "aborted"}

\* C12: a run that fails on a structural precondition (fewer than 4 sheets, a
\* sheet without a column the program reads) leaves the table and
\* highlighted_rows exactly as they were before the run.
C12_FailedRunChangesNothing ==
    [][(~RunFailed /\ RunFailed') =>
          (table' = table /\ highlighted_rows' = highlighted_rows)]_vars

\* C12 holds for the failure _load_excel reports: fewer than 4 sheets
C12_LoadFailureChangesNothing ==
    [][pc' = "load_failed" =>
          (table' = table /\ highlighted_rows' = highlighted_rows)]_vars

\* the sum of the ordered quantities of the rows of sheet 4 whose column C
\* equals the cell key, 0 when there is none
OrdersOfKey(key) ==
    SumColumn(Matches(df4, SHEET4_COLS.C, key), SHEET4_COLS.I)

\* C13: the summed ordered quantity of every data record is the sum over the
\* rows of sheet 4 whose match column equals the record's key, the raw cell
\* of sheet 1 that also selects the stock rows, and 0 when no row matches.
C13_OrderGivenByKey ==
    pc = "populated" =>
        \A k \in DataIdx(table) :
            OrderGiven(table[k]) = OrdersOfKey(df1[k][SHEET1_COLS.C])

\* C13 holds for the records whose key is a text cell
C13_OrderGivenByTextKey ==
    pc = "populated" =>
        \A k \in DataIdx(table) :
            df1[k][SHEET1_COLS.C].t = "str" =>
                OrderGiven(table[k]) = OrdersOfKey(df1[k][SHEET1_COLS.C])

\* the rows of a stock sheet whose match column equals the cell key
StockRows(df, key) == {j \in 1..Len(df) : PdEq(df[j][COMMON_MATCH_COL.G], key)}

\* the sum of the coerced cells of column col over the rows of the set rows
SumOver(df, col, rows) ==
    LET r[j \in 0..Len(df)] ==
            IF j = 0 THEN 0
            ELSE r[j - 1] + (IF j \in rows THEN ToFloatSeries(df[j][col]) ELSE 0)
    IN r[Len(df)]

\* the reference text and sum texts of a record are those of the rows of a
\* stock sheet: empty without a matching row, else the reference cell of the
\* first matching row and the sums over all matching rows
StockFields(df, key, ref_col, ref_text, sum_cols, sum_texts) ==
    \A rows \in {StockRows(df, key)} :
        IF rows = {}
        THEN /\ ref_text = <<>>
             /\ \A c \in 1..Len(sum_cols) :
                   sum_texts[c] = <<>> /\ ToFloat(sum_texts[c]) = 0
        ELSE /\ ref_text = PyStr(df[CHOOSE j \in rows : \A h \in rows : j <= h][ref_col])
             /\ \A c \in 1..Len(sum_cols) :
                   /\ Len(sum_texts[c]) > 0
                   /\ ToFloat(sum_texts[c]) = SumOver(df, sum_cols[c], rows)

\* C14: for every data record and each stock sheet, the reference and sum
\* fields are empty when no row of the sheet has the record's key in its match
\* column, and else hold the reference cell of the first matching row and the
\* sums of the coerced numeric columns over all matching rows, the two
\* columns of sheet 3 summed each on its own.
C14_StockFields ==
    pc = "populated" =>
        \A k \in DataIdx(table) :
            /\ StockFields(df2, df1[k][SHEET1_COLS.C], SHEET2_COLS.B, Text(table[k], 4),
                           <<SHEET2_COLS.J>>, <<Text(table[k], 5)>>)
            /\ StockFields(df3, df1[k][SHEET1_COLS.C], SHEET3_COLS.B, Text(table[k], 6),
                           <<SHEET3_COLS.K, SHEET3_COLS.L>>,
                           <<Text(table[k], 7), Text(table[k], 8)>>)

\* a record with two matching rows of sheet 2, whose reference cells differ,
\* and with a row of sheet 3 whose two numeric cells differ; and a record
\* without a matching row in sheet 3
C14_Witness ==
    /\ pc = "populated"
    /\ \E k \in DataIdx(table) :
          /\ \E i, j \in StockRows(df2, df1[k][SHEET1_COLS.C]) :
                i < j /\ df2[i][SHEET2_COLS.B] # df2[j][SHEET2_COLS.B]
          /\ StockRows(df3, df1[k][SHEET1_COLS.C]) # {}
          /\ ToFloat(Text(table[k], 7)) # ToFloat(Text(table[k], 8))
    /\ \E k \in DataIdx(table) :
          /\ StockRows(df3, df1[k][SHEET1_COLS.C]) = {}
          /\ Text(table[k], 6) = <<>>

\* toNumber of the specification, the coercion of the cells of the sheets
ToNumber(text) == ToFloatSeries(StrCell(text))

\* C15: the text of a need edit is coerced like every cell ("." removed, ","
\* replaced by ".", 0.0 for a text that is no number), and the edit sets
\* need = quantity * that number on every non-header record from the edited
\* position on (here: in tables without a record coded 'Malzeme').
C15_MultiplierByToNumber ==
    [][\A row \in 0..MaxRows, text \in NeedTexts :
          (/\ CellChanged(row, text)
           /\ \A i \in DataIdx(table) : Text(table[i], 1) # Malzeme)
              => \A i \in DataIdx(table) :
                    i - 1 >= row =>
                        Need(table'[i]) = ToFloat(Text(table[i], 3)) * ToNumber(text)]_vars

\* C15 amended: the text of a need edit is read by float() after "," is
\* replaced by "." and nothing else.  If it is a number m, every record from
\* the edited position on that is not in highlighted_rows gets
\* need = quantity * m; if it is not (so for "1.2,0" and for "abc"), the need
\* cell of the edited record is emptied, its status is computed with need 0
\* and no other record changes.  An edit at a position in highlighted_rows
\* changes nothing but the typed text.
C15_MultiplierByFloat ==
    [][\A row \in 0..MaxRows, text \in NeedTexts :
          CellChanged(row, text) =>
              /\ Len(table') = Len(table)
              /\ IF Highlighted(highlighted_rows, row)
                 THEN table' = [table EXCEPT ![row + 1] = SetText(@, 9, text)]
                 ELSE IF Multiplier(text).ok
                 THEN \A i \in 1..Len(table) :
                         IF i - 1 >= row /\ ~Highlighted(highlighted_rows, i - 1)
                         THEN /\ Len(Text(table'[i], 9)) > 0
                              /\ Need(table'[i])
                                   = ToFloat(Text(table[i], 3)) * Multiplier(text).val
                         ELSE table'[i] = table[i]
                 ELSE /\ Text(table'[row + 1], 9) = <<>>
                      /\ StatusNumeric(table'[row + 1]) = StockSum(table[row + 1])
                      /\ \A i \in 1..Len(table) : i # row + 1 => table'[i] = table[i]]_vars

\* a record whose need has been emptied by a text that is no number, below a
\* record that an earlier edit has given a need
C15_Witness ==
    /\ pc = "table"
    /\ \E k, i \in DataIdx(table) :
          /\ k < i
          /\ ~Highlighted(highlighted_rows, k - 1)
          /\ ~Highlighted(highlighted_rows, i - 1)
          /\ Len(Text(table[k], 9)) > 0
          /\ Text(table[i], 9) = <<>>

Max0(x) == IF x > 0 THEN x ELSE 0

\* the value of the status formula: the stock sums minus the need
StatusByFormula(r) == StockSum(r) - Need(r)

\* C16: every non-header record whose status carries the order flag has
\* orderRequired = max(0, |status.numeric| - orderGiven), status.numeric being
\* the value of the status formula, after the first derivation and after
\* every need edit.
C16_OrderRequiredFormula ==
    pc = "table" =>
        \A i \in DataIdx(table) :
            HasOrderFlag(table[i]) =>
                OrderRequired(table[i])
                  = Max0(Abs(StatusByFormula(table[i])) - OrderGiven(table[i]))

\* C16 fails only on records whose materialCode reads "Malzeme"
C16_ExceptMalzeme ==
    pc = "table" =>
        \A i \in DataIdx(table) :
            (HasOrderFlag(table[i]) /\ Text(table[i], 1) # Malzeme) =>
                OrderRequired(table[i])
                  = Max0(Abs(StatusByFormula(table[i])) - OrderGiven(table[i]))

\* C16 with the number read from the status text holds for every record
C16_ByStatusText ==
    pc = "table" =>
        \A i \in DataIdx(table) :
            HasOrderFlag(table[i]) =>
                OrderRequired(table[i])
                  = Max0(Abs(StatusNumeric(table[i])) - OrderGiven(table[i]))

\* ---------------------------------------------------------------------------
\* The backward sweep of the duplicate-merge pass (SpecBuild)

\* the table and rows_to_remove of the backward loop just before the
\* iteration for r_idx
SweepBefore(tbl, r_idx) ==
    LET n == Len(tbl)
        st[k \in r_idx..(n - 1)] ==
            IF k = n - 1 THEN [table |-> tbl, rows_to_remove |-> {}]
            ELSE Once(LAMBDA prev : FsnkpStep(prev, k + 1), st[k + 1])
    IN st[r_idx]

\* C17: in the sweep of the table just built, no record that ends up in
\* rows_to_remove is the previous record of a merge, so that the marker is
\* appended only to records that remain.
C17_NoRemovedPrevious ==
    pc = "populated" =>
        \A sw \in {FsnkpLoop(table)} :
            \A r_idx \in sw.rows_to_remove : (r_idx - 1) \notin sw.rows_to_remove

\* C17 amended: when the sweep uses a record as the previous of a merge, that
\* record is not yet in rows_to_remove; it gets the marker and, inside a run
\* of three or more same-key marked rows, is removed by a later iteration.
\* The marker stays on the record before the run: for every removed record,
\* the nearest record above it that is not removed is a data record of the
\* same material code, carries the marker and remains in the table.
C17_MarkerOnRunHead ==
    pc = "populated" =>
        /\ \A r_idx \in 1..(Len(table) - 1) :
              \A b \in {SweepBefore(table, r_idx)} :
                  FsnkpMatch(b.table, r_idx) => (r_idx - 1) \notin b.rows_to_remove
        /\ \A sw \in {FsnkpLoop(table)} :
              \A r_idx \in sw.rows_to_remove :
                  /\ Contains(Text(sw.table[r_idx], 10), FsnkpMarker)
                  /\ \E head \in 1..r_idx :
                        /\ \A j \in head..(r_idx - 1) : j \in sw.rows_to_remove
                        /\ (head - 1) \notin sw.rows_to_remove
                        /\ ~IsHeader(sw.table[head])
                        /\ Text(sw.table[head], 1) = Text(table[r_idx + 1], 1)
                        /\ Contains(Text(sw.table[head], 10), FsnkpMarker)
                        /\ \E i \in 1..(Len(table) - Cardinality(sw.rows_to_remove)) :
                              FsnkpProcessed(table).table[i] = sw.table[head]

\* the sweep of a run of three: a record is marked as the previous of a merge
\* and is itself removed
C17_Witness ==
    /\ pc = "populated"
    /\ \E sw \in {FsnkpLoop(table)} :
          \E r_idx \in sw.rows_to_remove :
              /\ (r_idx - 1) \in sw.rows_to_remove
              /\ Contains(Text(sw.table[r_idx], 10), FsnkpMarker)
              /\ ~Contains(Text(table[r_idx], 10), FsnkpMarker)

\* ---------------------------------------------------------------------------
\* The header-index set after the duplicate-merge pass

\* the indices a list of row indices holds
IndexSet(rows) == {rows[k] : k \in 1..Len(rows)}

\* the 0-based positions of the block headers of a table
HeaderPositions(tbl) == {i - 1 : i \in {k \in 1..Len(tbl) : IsHeader(tbl[k])}}

\* the 0-based positions of the data records whose material code reads 'Malzeme'
MalzemeRecordPositions(tbl) ==
    {i - 1 : i \in {k \in DataIdx(tbl) : Text(tbl[k], 1) = Malzeme}}

\* C18: after the duplicate-merge pass the header-index set is exactly the
\* set of positions of the block headers: every header's index and no data
\* record's index.
C18_HeaderIndexSet ==
    pc = "table" => IndexSet(highlighted_rows) = HeaderPositions(table)

\* what the re-derivation gives: the positions of the headers and of the data
\* records whose material code reads 'Malzeme', in increasing order
C18_HeadersAndMalzemeRecords ==
    pc = "table" =>
        /\ IndexSet(highlighted_rows) =
               HeaderPositions(table) \cup MalzemeRecordPositions(table)
        /\ \A i, j \in 1..Len(highlighted_rows) :
               i < j => highlighted_rows[i] < highlighted_rows[j]

\* ---------------------------------------------------------------------------
\* Block headers under the later steps

\* the block headers of a table, in order
Headers(tbl) == SelectSeq(tbl, IsHeader)

\* the columns _cell_changed is called with
Columns == 0..13

\* what one run of the merge pass or one need edit does to the headers
HeadersKept ==
    (pc \in {"populated", "table"} /\ pc' \in {"populated", "table"}) =>
        /\ Headers(table') = Headers(table)
        /\ (pc = "table" /\ pc' = "table") =>
              /\ Len(table') = Len(table)
              /\ \A i \in 1..Len(table) : IsHeader(table[i]) => table'[i] = table[i]

\* the headers as the build made them, the calls of _cell_changed for a
\* header row, and the rows the merge pass compares and removes
HeadersExcluded ==
    /\ pc \in {"populated", "table"} =>
          \A i \in 1..Len(table) :
              IsHeader(table[i]) => table[i] = BlockHeaderRow(Text(table[i], 0))
    /\ pc = "table" =>
          \A row \in 0..(Len(table) - 1) :
              IsHeader(table[row + 1]) =>
                  \A col \in Columns :
                      CellChangedTable(table, highlighted_rows, updating, df4,
                                       row, col) = table
    /\ pc = "populated" =>
          /\ \A r_idx \in 1..(Len(table) - 1) :
                \A b \in {SweepBefore(table, r_idx)} :
                    FsnkpMatch(b.table, r_idx) =>
                        /\ ~IsHeader(b.table[r_idx + 1])
                        /\ ~IsHeader(b.table[r_idx])
          /\ \A sw \in {FsnkpLoop(table)} :
                /\ \A r_idx \in sw.rows_to_remove : ~IsHeader(table[r_idx + 1])
                /\ \A i \in 1..Len(table) :
                      IsHeader(table[i]) => sw.table[i] = table[i]

\* C19: the derivation after the build, every need edit (and every call of
\* _cell_changed for a header row, whatever the column) and the merge pass
\* leave every field of every block header as the build made it, remove no
\* header and never take a header as the current or previous row of a merge.
C19_HeadersUntouched == [][HeadersKept]_vars /\ []HeadersExcluded

\* a need edit in a row above a later block header has been propagated
\* downwards, past that header
C19_Witness ==
    /\ pc = "table"
    /\ \E i, j \in 1..Len(table) :
          /\ i < j
          /\ ~IsHeader(table[i]) /\ Text(table[i], 9) # <<>>
          /\ IsHeader(table[j])

\* ---------------------------------------------------------------------------
\* _update_completion_chart: the counts of the summary

\* the counting loop over the rows, which skips the rows in highlighted_rows,
\* and the total the percentages are taken of
CompletionCounts(tbl, hl) ==
    LET f[k \in 0..Len(tbl)] ==
            IF k = 0 THEN [completed_count |-> 0, incomplete_count |-> 0]
            ELSE IF Highlighted(hl, k - 1) THEN f[k - 1]
            ELSE IF Contains(Text(tbl[k], 10), SiparisVer)
                 THEN [f[k - 1] EXCEPT !.incomplete_count = @ + 1]
                 ELSE [f[k - 1] EXCEPT !.completed_count = @ + 1]
    IN [completed_count |-> f[Len(tbl)].completed_count,
        incomplete_count |-> f[Len(tbl)].incomplete_count,
        total_data_rows |-> Len(tbl) - Len(hl)]

FlaggedData(tbl) == {i \in DataIdx(tbl) : HasOrderFlag(tbl[i])}

\* C20: whenever the summary can be opened, the count of incomplete rows is
\* the number of data rows whose status carries the order flag, the count of
\* completed rows the number of data rows whose status does not, and the two
\* add up to the row count minus the size of the header-index set: every
\* data row is counted once and no header is counted.
C20_CountsCoverDataRows ==
    pc = "table" =>
        \A c \in {CompletionCounts(table, highlighted_rows)} :
            /\ c.incomplete_count = Cardinality(FlaggedData(table))
            /\ c.completed_count = Cardinality(DataIdx(table) \ FlaggedData(table))
            /\ c.incomplete_count + c.completed_count = c.total_data_rows

\* the two counts add up to the total the percentages are taken of
C20_CountsAddUp ==
    pc = "table" =>
        \A c \in {CompletionCounts(table, highlighted_rows)} :
            c.incomplete_count + c.completed_count = c.total_data_rows

\* C20 fails only in tables with a record whose materialCode reads "Malzeme"
C20_ExceptMalzeme ==
    (/\ pc = "table"
     /\ \A i \in DataIdx(table) : Text(table[i], 1) # Malzeme) =>
        \A c \in {CompletionCounts(table, highlighted_rows)} :
            /\ c.incomplete_count = Cardinality(FlaggedData(table))
            /\ c.completed_count = Cardinality(DataIdx(table) \ FlaggedData(table))

\* ---------------------------------------------------------------------------
\* The merge marker under need edits

HasFsnkpMarker(r) == Contains(Text(r, 10), FsnkpMarker)

\* C21: a record whose status carries the merge marker '#FSNKP' after the
\* duplicate-merge pass still carries it after every need edit, also one that
\* recomputes the status of that record.
C21_MarkerSurvivesEdits ==
    [][(pc = "table" /\ pc' = "table") =>
          \A i \in 1..Len(table) :
              HasFsnkpMarker(table[i]) => HasFsnkpMarker(table'[i])]_vars

\* what a need edit leaves of the marker: a record carries it after the edit
\* only if the edit has not rewritten the status of that record
C21_MarkerOnlyWhereStatusKept ==
    [][(pc = "table" /\ pc' = "table") =>
          \A i \in 1..Len(table) :
              HasFsnkpMarker(table'[i]) =>
                  /\ HasFsnkpMarker(table[i])
                  /\ Text(table'[i], 10) = Text(table[i], 10)
                  /\ Text(table'[i], 9) = Text(table[i], 9)]_vars

\* ---------------------------------------------------------------------------
\* The guard _updating (SpecReload)

\* no handler is running: the file page or the table page waits for the user
Idle == pc \in {"load_failed", "loaded", "failed", "table"}

\* C22: whenever no handler is running _updating is False: every path
\* through _cell_changed and _process_fsnkp_rows that sets it resets it, also
\* a path on which the recomputation of a row fails.
C22_GuardResetWhenIdle == Idle => ~updating

\* the guard is False whenever the table page is shown, and there no call of
\* _cell_changed for a need edit is left by an exception
C22_GuardResetOnTablePage ==
    pc = "table" =>
        /\ ~updating
        /\ \A row \in 0..(Len(table) - 1), text \in NeedTexts :
              ~CellChangedRaises([table EXCEPT ![row + 1] = SetText(@, 9, text)],
                                 highlighted_rows, updating, df4, row, 9)

\* with the guard set, _cell_changed changes nothing, whatever the cell
C22_NoRecomputationUnderGuard ==
    \A row \in 0..(Len(table) - 1), col \in Columns :
        /\ CellChangedTable(table, highlighted_rows, TRUE, df4, row, col) = table
        /\ ~CellChangedRaises(table, highlighted_rows, TRUE, df4, row, col)

====
